---- MODULE Spec2Model ----
(***************************************************************************)
(* Model of src/backup_manager.py: the BackupManager's scheduler           *)
(* (manage_snapshot with its create_snapshot tasks on the asyncio event    *)
(* loop), its retention run (apply_retention_policy) and its report        *)
(* (get_instances_info), against the external compute gateway; main's      *)
(* dispatch on the option; and the two functions get_last_backup_timestamp *)
(* and construct_disks_snapshots_dict, each called on its own.             *)
(*                                                                         *)
(* Encodings.                                                              *)
(*  - A creation timestamp is the integer date * TicksPerDay + tick: the   *)
(*    code compares ISO-8601 strings with <, which orders them by date and *)
(*    then by time of day; get_date_time splits one into its two parts.    *)
(*  - A date is a day number; the run happens on day Today.                *)
(*  - The gateway omits 'items' from an empty listing, and the code stores *)
(*    None then (lines 33, 36): the empty sequence <<>> stands for None,   *)
(*    and every use of it is one that raises TypeError on None.            *)
(*  - Instance names, disk names and snapshot names are integers; the      *)
(*    instance at position i of the listing is named i and owns disk i.    *)
(***************************************************************************)
EXTENDS Integers, Sequences, FiniteSets, TLC

\* ---------------------------------------------------------------- bounds

\* Instances the gateway lists, at most.
MaxInstances == 2
\* Snapshots the project holds when a scheduler run starts, at most.
MaxSchedSnapshots == 2
\* Distinct times of day a snapshot can carry.
TicksPerDay == 2
\* Polls counted per task (the count saturates; polling itself goes on).
MaxPolls == 1
\* The day number of the run.
Today == 14
\* Snapshots the project holds when a retention run starts, at most.
MaxRetSnapshots == 3

\* --------------------------------------------------------- program constants

\* parser default of --name: 'new-snapshot' (every task of a run gets it).
NewSnapshotName == 0
\* Line 259: dates less than 7 days old are deduplicated per day.
DailyWindow == 7
\* Line 265: dates less than 14 days old (and not less than 7) are pooled.
WeeklyWindow == 14
\* Lines 100 and 174: asyncio.sleep(0.1), in tenths of a second.
StartDelay == 1
\* Line 109: asyncio.sleep(5), the poll interval, in tenths of a second.
PollDelay == 50

VARIABLES
    option,         \* args.option
    result,         \* of a function called on its own: [call, raised, value]
    listCalls,      \* instances().list and snapshots().list calls, in order
    cheat_create,   \* args.cheat_create
    cheat_skip,     \* args.cheat_skip
    gwInstances,    \* gateway: the instances it lists, [name, backup]
    gwSnapshots,    \* gateway: the project's snapshots, in listing order
    gwOps,          \* gateway: status of the creation operation of disk i
    instances,      \* self.instances
    snapshots,      \* self.snapshots
    task,           \* self.task: 0 for None, else the instance whose task it is
    pc,             \* where the coordinator (manage_snapshot / main) is
    idx,            \* position of the for loop of manage_snapshot
    taskpc,         \* where the create_snapshot task of instance i is
    decision,       \* the branch manage_snapshot took for instance i
    lookups,        \* get_last_backup_timestamp calls made for instance i
    queriedEmpty,   \* get_last_backup_timestamp was called on no snapshots
    polls,          \* zoneOperations().get calls made for instance i
    lastStatus,     \* what the last such call returned
    timers,         \* event loop: who sleeps (0: the coordinator), in the order set
    createCalls,    \* disks().createSnapshot calls, in order: [disk, name]
    trace,          \* delete calls, log lines of interest, the error on stderr
    raised,         \* the exception that ended the run, "none" if none
    exit            \* the process's exit status, -1 while it runs

vars == <<option, result, listCalls, cheat_create, cheat_skip, gwInstances, gwSnapshots, gwOps, instances,
          snapshots, task, pc, idx, taskpc, decision, lookups, queriedEmpty,
          polls, lastStatus, timers, createCalls, trace, raised, exit>>

\* ---------------------------------------------------------------- helpers

Min(a, b) == IF a < b THEN a ELSE b

\* Sequences over S of length 0..n.
SeqUpTo(S, n) == UNION {[1..k -> S] : k \in 0..n}

InstanceIds == 1..MaxInstances

\* A snapshot as snapshots().list returns it.
Snapshot(id, disk, date, tick) ==
    [name |-> id, id |-> id, sourceDiskId |-> disk,
     creationTimestamp |-> date * TicksPerDay + tick]

\* ------------------------------------------------------- pure functions

\* get_date_time: the regex's two groups, date and time of day.
get_date_time(time_str) == <<time_str \div TicksPerDay, time_str % TicksPerDay>>

RECURSIVE ScanLast(_, _, _, _)
\* The for loop of get_last_backup_timestamp over snapshots[k..].
ScanLast(snaps, timestamp, k, last_backup_timestamp) ==
    IF k > Len(snaps) THEN last_backup_timestamp
    ELSE ScanLast(snaps, timestamp, k + 1,
                  IF last_backup_timestamp < snaps[k][timestamp]
                  THEN snaps[k][timestamp] ELSE last_backup_timestamp)

\* The timestamp of the snapshot listed last.
get_last_backup_timestamp_mutant(snaps, timestamp) == snaps[Len(snaps)][timestamp]

\* get_last_backup_timestamp on a non-empty list (it raises on None and []).
get_last_backup_timestamp(snaps, timestamp) ==
    ScanLast(snaps, timestamp, 2, snaps[1][timestamp])

\* ------------------------------------------------------------ scheduler

\* The collections a scheduler run may find: snapshots of disk 1 taken
\* yesterday or today, in any listing order, or none at all.
SchedSnapshotLists ==
    { [k \in DOMAIN ds |-> Snapshot(k, 1, ds[k], 0)] :
        ds \in SeqUpTo({Today - 1, Today}, MaxSchedSnapshots) }

\* The listings of instances: instance i, with its backup label.
InstanceLists ==
    { [k \in DOMAIN ls |-> [name |-> k, labels |-> [backup |-> ls[k]]]] :
        ls \in SeqUpTo({"true", "false"}, MaxInstances) }

NoTasks == [i \in InstanceIds |-> "none"]

\* No function has been called on its own.
NoResult == [call |-> "none", raised |-> "none", value |-> <<>>]

SchedInit ==
    /\ option = "snapshot"
    /\ result = NoResult
    /\ listCalls = <<>>
    /\ cheat_create \in BOOLEAN
    /\ cheat_skip \in BOOLEAN
    /\ gwInstances \in InstanceLists
    /\ gwSnapshots \in SchedSnapshotLists
    /\ gwOps = [i \in InstanceIds |-> "NONE"]
    /\ instances = <<>>
    /\ snapshots = <<>>
    /\ task = 0
    /\ pc = "start"
    /\ idx = 0
    /\ taskpc = NoTasks
    /\ decision = [i \in InstanceIds |-> "none"]
    /\ lookups = [i \in InstanceIds |-> 0]
    /\ queriedEmpty = FALSE
    /\ polls = [i \in InstanceIds |-> 0]
    /\ lastStatus = [i \in InstanceIds |-> "NONE"]
    /\ timers = <<>>
    /\ createCalls = <<>>
    /\ trace = <<>>
    /\ raised = "none"
    /\ exit = -1

\* The lookup made for every instance, whatever its label.
backup_enabled_mutant(instance) == TRUE

\* Line 154: the label test that guards the lookup.
backup_enabled(instance) == instance.labels.backup = "true"

\* The skip taken only when both the date and the override ask for it.
skip_backup_creation_mutant(last_backup_date) ==
    (last_backup_date = Today /\ cheat_skip) /\ ~cheat_create

\* Line 167: the condition of the 'Skipping backup creation' branch.
skip_backup_creation(last_backup_date) ==
    (last_backup_date = Today \/ cheat_skip) /\ ~cheat_create

\* The event loop. Every gateway call blocks the whole loop, for a time
\* nobody knows, so all that is known of a timer is when it was set and its
\* delay: a timer set earlier with no longer a delay is due earlier.
Delay(owner) ==
    IF owner = 0 \/ taskpc[owner] = "sleep" THEN StartDelay ELSE PollDelay

\* Handles call_soon has queued: the first step of a task just created, and
\* the wakeup of the coordinator by the task it awaits. The loop runs them
\* before the callback of any timer not yet due.
Ready ==
    \/ \E i \in InstanceIds : taskpc[i] = "start"
    \/ pc = "await" /\ taskpc[task] \in {"done", "raised"}

\* The sleep of owner may be the next to end.
CanFire(owner) ==
    /\ ~Ready
    /\ \E k \in 1..Len(timers) :
          /\ timers[k] = owner
          /\ \A j \in 1..(k - 1) : Delay(timers[j]) > Delay(owner)

Without(seq, owner) == SelectSeq(seq, LAMBDA o : o # owner)

\* What the coordinator's synchronous code changes between two awaits.
Coord(i, d, l, q, t, tp, p, r) ==
    [idx |-> i, decision |-> d, lookups |-> l, queriedEmpty |-> q, task |-> t,
     taskpc |-> tp, pc |-> p, raised |-> r]

RECURSIVE for_instances(_, _, _, _)
\* Lines 149-174: the for loop from instance i on, up to its next await (the
\* sleep after create_task), an exception, or the end of the list.
for_instances(insts, snaps, i, c) ==
    IF i > Len(insts) THEN [c EXCEPT !.idx = i, !.pc = "after_loop"]
    ELSE IF ~backup_enabled(insts[i])
    THEN for_instances(insts, snaps, i + 1,
                       [c EXCEPT !.decision[i] = "disabled"])
    ELSE IF snaps = <<>>
    THEN \* get_last_backup_timestamp(None): snapshots[0] raises TypeError
         [c EXCEPT !.idx = i, !.lookups[i] = @ + 1, !.queriedEmpty = TRUE,
                   !.pc = "raise", !.raised = "TypeError"]
    ELSE LET last_backup == get_last_backup_timestamp(snaps, "creationTimestamp")
             last_backup_date == get_date_time(last_backup)[1]
         IN  IF skip_backup_creation(last_backup_date)
             THEN for_instances(insts, snaps, i + 1,
                                [c EXCEPT !.lookups[i] = @ + 1,
                                          !.decision[i] = "skip"])
             ELSE \* create_task, then await asyncio.sleep(0.1)
                  [c EXCEPT !.idx = i, !.lookups[i] = @ + 1,
                            !.decision[i] = "create", !.task = i,
                            !.taskpc[i] = "start", !.pc = "sleep"]

\* Lines 176-181: after the loop, await self.task, the last task created.
await_task(c) ==
    IF c.pc # "after_loop" THEN c
    ELSE IF c.task = 0 THEN [c EXCEPT !.pc = "return"]
    ELSE IF c.taskpc[c.task] = "done" THEN [c EXCEPT !.pc = "return_all_done"]
    ELSE IF c.taskpc[c.task] = "raised"
    THEN [c EXCEPT !.pc = "raise", !.raised = "GatewayError"]
    ELSE [c EXCEPT !.pc = "await"]

\* asyncio.run on its way out cancels every task that has not finished.
cancel_all_tasks(tp) ==
    [i \in InstanceIds |->
        IF tp[i] \in {"start", "sleep", "wait"} THEN "cancelled" ELSE tp[i]]

\* main, lines 318-335: manage_snapshot returned (exit status 0) or raised
\* (only KeyboardInterrupt is caught: a traceback and exit status 1).
Exits(p) == p \in {"return", "return_all_done", "raise"}

\* The coordinator's variables after a stretch of its code that ended as c.
Continue(c) ==
    /\ idx' = c.idx
    /\ decision' = c.decision
    /\ lookups' = c.lookups
    /\ queriedEmpty' = c.queriedEmpty
    /\ task' = c.task
    /\ raised' = c.raised
    /\ trace' = IF c.pc = "return_all_done"
                THEN Append(trace, <<"log", "All snapshots done">>) ELSE trace
    /\ IF Exits(c.pc)
       THEN /\ pc' = "exited"
            /\ exit' = IF c.pc = "raise" THEN 1 ELSE 0
            /\ taskpc' = cancel_all_tasks(c.taskpc)
            /\ timers' = <<>>
       ELSE /\ pc' = c.pc
            /\ exit' = exit
            /\ taskpc' = c.taskpc
            /\ timers' = IF c.pc = "sleep" THEN Append(Without(timers, 0), 0)
                          ELSE Without(timers, 0)

Here == Coord(idx, decision, lookups, queriedEmpty, task, taskpc, pc, raised)

\* list_instances_and_snapshots, lines 32 and 35: the list calls it issues when
\* the call named failure raises (the second is not reached if the first does).
list_calls(failure) ==
    IF failure = "instances" THEN <<"instances">> ELSE <<"instances", "snapshots">>

\* Lines 141-147, then the loop: list_instances_and_snapshots (either gateway
\* call may fail), len(self.instances), and the for loop up to its first await.
manage_snapshot_start ==
    /\ pc = "start"
    /\ \E failure \in {"none", "instances", "snapshots"} :
         /\ listCalls' = listCalls \o list_calls(failure)
         /\ instances' = IF failure = "instances" THEN instances ELSE gwInstances
         /\ snapshots' = IF failure = "none" THEN gwSnapshots ELSE snapshots
         /\ IF failure # "none"
            THEN Continue([Here EXCEPT !.pc = "raise", !.raised = "GatewayError"])
            ELSE IF gwInstances = <<>>
            THEN \* len(None)
                 Continue([Here EXCEPT !.pc = "raise", !.raised = "TypeError"])
            ELSE Continue(await_task(for_instances(gwInstances, gwSnapshots, 1, Here)))
    /\ UNCHANGED <<option, result, cheat_create,
                   cheat_skip, gwInstances, gwSnapshots, gwOps, polls,
                   lastStatus, createCalls>>

\* The snapshots listed anew before the decision.
known_snapshots_mutant == gwSnapshots

\* Line 156: the snapshots the decision is taken on, self.snapshots as the
\* listing of line 146 set it, whatever has been created since.
known_snapshots == snapshots

\* Line 174 returns: the sleep of 0.1 is over. (The task created just before
\* it was made ready by create_task and has run its first stretch by then.)
manage_snapshot_wake ==
    /\ pc = "sleep"
    /\ CanFire(0)
    /\ Continue(await_task(for_instances(instances, known_snapshots, idx + 1, Here)))
    /\ UNCHANGED <<option, result, listCalls, cheat_create,
                   cheat_skip, gwInstances, gwSnapshots, gwOps, instances,
                   snapshots, polls, lastStatus, createCalls>>

\* Line 177 returns or raises: the awaited task has finished.
manage_snapshot_join ==
    /\ pc = "await"
    /\ taskpc[task] \in {"done", "raised"}
    /\ Continue(await_task([Here EXCEPT !.pc = "after_loop"]))
    /\ UNCHANGED <<option, result, listCalls, cheat_create,
                   cheat_skip, gwInstances, gwSnapshots, gwOps, instances,
                   snapshots, polls, lastStatus, createCalls>>

\* Lines 96-100: the task's first stretch, the createSnapshot call. The
\* gateway answers with an operation, running from then on, and lists the
\* snapshot (taken today) from then on; or the call raises.
create_snapshot_start(i) ==
    /\ taskpc[i] = "start"
    /\ createCalls' = Append(createCalls, [disk |-> instances[i].name,
                                           name |-> NewSnapshotName])
    /\ \E ok \in BOOLEAN :
         IF ok THEN /\ gwOps' = [gwOps EXCEPT ![i] = "RUNNING"]
                    /\ gwSnapshots' = Append(gwSnapshots,
                           [name |-> NewSnapshotName, id |-> Len(gwSnapshots) + 1,
                            sourceDiskId |-> instances[i].name,
                            creationTimestamp |-> Today * TicksPerDay])
                    /\ taskpc' = [taskpc EXCEPT ![i] = "sleep"]
                    /\ timers' = Append(timers, i)
               ELSE /\ gwOps' = gwOps
                    /\ gwSnapshots' = gwSnapshots
                    /\ taskpc' = [taskpc EXCEPT ![i] = "raised"]
                    /\ timers' = timers
    /\ UNCHANGED <<option, result, listCalls, cheat_create,
                   cheat_skip, gwInstances, instances,
                   snapshots, task, pc, idx, decision, lookups, queriedEmpty, polls,
                   lastStatus, trace, raised, exit>>

\* The loop left on any status but ERROR.
poll_again_mutant(status) == status = "ERROR"

\* Lines 107-109: what create_snapshot does with a status.
poll_again(status) == status # "DONE"

\* Lines 103-109 with get_zone_operations (111-124): one turn of the poll
\* loop, after the sleep before it. The get call answers or raises.
create_snapshot_poll(i) ==
    /\ taskpc[i] \in {"sleep", "wait"}
    /\ CanFire(i)
    /\ polls' = [polls EXCEPT ![i] = Min(@ + 1, MaxPolls)]
    /\ \E ok \in BOOLEAN :
         IF ok THEN /\ lastStatus' = [lastStatus EXCEPT ![i] = gwOps[i]]
                    /\ taskpc' = [taskpc EXCEPT ![i] =
                                    IF poll_again(gwOps[i]) THEN "wait" ELSE "done"]
                    /\ timers' = IF poll_again(gwOps[i])
                                  THEN Append(Without(timers, i), i)
                                  ELSE Without(timers, i)
               ELSE /\ lastStatus' = lastStatus
                    /\ taskpc' = [taskpc EXCEPT ![i] = "raised"]
                    /\ timers' = Without(timers, i)
    /\ UNCHANGED <<option, result, listCalls, cheat_create,
                   cheat_skip, gwInstances, gwSnapshots, gwOps, instances,
                   snapshots, task, pc, idx, decision, lookups, queriedEmpty,
                   createCalls, trace, raised, exit>>

\* The gateway: a running creation operation ends, DONE or ERROR.
gateway_operation_ends(i) ==
    /\ gwOps[i] = "RUNNING"
    /\ \E status \in {"DONE", "ERROR"} : gwOps' = [gwOps EXCEPT ![i] = status]
    /\ UNCHANGED <<option, result, listCalls, cheat_create,
                   cheat_skip, gwInstances, gwSnapshots, instances,
                   snapshots, task, pc, idx, taskpc, decision, lookups, queriedEmpty,
                   polls, lastStatus, timers, createCalls, trace, raised, exit>>

SchedNext ==
    \/ manage_snapshot_start
    \/ manage_snapshot_wake
    \/ manage_snapshot_join
    \/ \E i \in InstanceIds : create_snapshot_start(i)
    \/ \E i \in InstanceIds : create_snapshot_poll(i)
    \/ \E i \in InstanceIds : gateway_operation_ends(i)

Spec == SchedInit /\ [][SchedNext]_vars

\* ------------------------------------------------------------ retention

\* The disks that have snapshots.
DiskIds == {1, 2}

\* The earliest and the latest time of day.
EdgeTicks == {0, TicksPerDay - 1}

\* Ages (in days) at the edges of the two windows of the policy.
Ages == {DailyWindow - 1, DailyWindow, WeeklyWindow - 1, WeeklyWindow}

\* The collections a retention run may find: the snapshot at position k of
\* the listing has name and id k (the gateway keeps names unique).
RetSnapshotLists ==
    { [k \in DOMAIN ss |-> Snapshot(k, ss[k][1], Today - ss[k][2], ss[k][3])] :
        ss \in SeqUpTo(DiskIds \X Ages \X EdgeTicks, MaxRetSnapshots) }

RetInit ==
    /\ option = "apply-retention-policy"
    /\ result = NoResult
    /\ listCalls = <<>>
    /\ cheat_create = FALSE
    /\ cheat_skip = FALSE
    /\ gwInstances = <<>>
    /\ gwSnapshots \in RetSnapshotLists
    /\ gwOps = [i \in InstanceIds |-> "NONE"]
    /\ instances = <<>>
    /\ snapshots = <<>>
    /\ task = 0
    /\ pc = "start"
    /\ idx = 0
    /\ taskpc = NoTasks
    /\ decision = [i \in InstanceIds |-> "none"]
    /\ lookups = [i \in InstanceIds |-> 0]
    /\ queriedEmpty = FALSE
    /\ polls = [i \in InstanceIds |-> 0]
    /\ lastStatus = [i \in InstanceIds |-> "NONE"]
    /\ timers = <<>>
    /\ createCalls = <<>>
    /\ trace = <<>>
    /\ raised = "none"
    /\ exit = -1

\* A Python dict, which keeps insertion order, is a sequence of [key, value].
Position(dict, key) ==
    IF \E j \in 1..Len(dict) : dict[j].key = key
    THEN CHOOSE j \in 1..Len(dict) : dict[j].key = key
    ELSE 0

\* dict[key] = default, whether key is in dict or not.
SetDefault_mutant(dict, key, default) ==
    IF \E j \in 1..Len(dict) : dict[j].key = key
    THEN [j \in 1..Len(dict) |->
            IF dict[j].key = key THEN [key |-> key, value |-> default] ELSE dict[j]]
    ELSE Append(dict, [key |-> key, value |-> default])

\* dict[key] = default, if key is not in dict (lines 202-205).
SetDefault(dict, key, default) ==
    IF Position(dict, key) = 0
    THEN Append(dict, [key |-> key, value |-> default]) ELSE dict

\* Lines 200-211: one turn of the loop of construct_disks_snapshots_dict.
add_snapshot(disks, snapshot) ==
    LET disk_id == snapshot.sourceDiskId
        date == get_date_time(snapshot.creationTimestamp)[1]
        snapshot_dict == [name |-> snapshot.name, id |-> snapshot.id,
                          time |-> snapshot.creationTimestamp]
        disks1 == SetDefault(disks, disk_id, <<>>)
        d == Position(disks1, disk_id)
        dates1 == SetDefault(disks1[d].value, date, <<>>)
        e == Position(dates1, date)
    IN  [disks1 EXCEPT ![d].value =
            [dates1 EXCEPT ![e].value = Append(@, snapshot_dict)]]

RECURSIVE construct_from(_, _, _)
construct_from(snaps, k, disks) ==
    IF k > Len(snaps) THEN disks
    ELSE construct_from(snaps, k + 1, add_snapshot(disks, snaps[k]))

\* construct_disks_snapshots_dict over self.snapshots (not None).
construct_disks_snapshots_dict(snaps) == construct_from(snaps, 1, <<>>)

\* A backup selected when it is not newer than the last one.
is_older_mutant(backup, last_backup_time) == backup.time <= last_backup_time

\* Line 225: the test that selects a backup for deletion.
is_older(backup, last_backup_time) == backup.time < last_backup_time

\* The loop left after its first deletion.
delete_older_backups_mutant(backups) ==
    LET last_backup_time == get_last_backup_timestamp(backups, "time")
        older == SelectSeq(backups, LAMBDA backup : backup.time < last_backup_time)
    IN  IF older = <<>> THEN <<>> ELSE <<older[1]>>

\* delete_older_backups: the backups it deletes, in the order of its calls.
delete_older_backups(backups) ==
    LET last_backup_time == get_last_backup_timestamp(backups, "time")
    IN  SelectSeq(backups, LAMBDA backup : is_older(backup, last_backup_time))

\* The pool taking in the dates exactly 14 days old as well.
in_last_week_mutant(date_diff) == date_diff <= WeeklyWindow

\* Line 265: the test of the elif, on a date not less than 7 days old.
in_last_week(date_diff) == date_diff < WeeklyWindow

RECURSIVE for_dates(_, _, _, _)
\* Lines 250-272 for one disk: the loop over its dates from position k on,
\* with the deletions made so far and last_week_backups, then the pool.
for_dates(dates, k, deleted, last_week_backups) ==
    IF k > Len(dates)
    THEN IF Len(last_week_backups) > 1
         THEN deleted \o delete_older_backups(last_week_backups)
         ELSE deleted
    ELSE LET date_diff == Today - dates[k].key
             snapshots_num == Len(dates[k].value)
         IN  IF date_diff < DailyWindow
             THEN for_dates(dates, k + 1,
                            IF snapshots_num > 1
                            THEN deleted \o delete_older_backups(dates[k].value)
                            ELSE deleted,
                            last_week_backups)
             ELSE IF in_last_week(date_diff)
             THEN for_dates(dates, k + 1, deleted,
                            last_week_backups \o dates[k].value)
             ELSE for_dates(dates, k + 1, deleted, last_week_backups)

RECURSIVE for_disks(_, _)
\* Lines 244-272: the backups the run deletes, in the order of its calls.
for_disks(disks, k) ==
    IF k > Len(disks) THEN <<>>
    ELSE for_dates(disks[k].value, 1, <<>>, <<>>) \o for_disks(disks, k + 1)

RECURSIVE deletion_trace(_, _)
\* Lines 226-227 for each backup deleted: the delete call, then the log line.
deletion_trace(deleted, k) ==
    IF k > Len(deleted) THEN <<>>
    ELSE <<<<"delete", deleted[k].name>>, <<"log", deleted[k].id>>>>
         \o deletion_trace(deleted, k + 1)

\* The gateway after snapshots().delete of each name in names.
gateway_delete(snaps, names) == SelectSeq(snaps, LAMBDA s : s.name \notin names)

\* Lines 232-233: the run's logger, and its first line, 'Checking backups
\* against retention policy'.
run_begins == <<"begin", "retention_policy">>

\* The body of apply_retention_policy, the whole run of a new process: the
\* listing (either call may fail; None for an empty listing makes
\* construct_disks_snapshots_dict raise), then the deletions, of which the one
\* numbered failure (if any) raises.
retention_run ==
    \E listing \in {"ok", "instances", "snapshots"} :
       /\ listCalls' = listCalls \o list_calls(listing)
       /\ IF listing # "ok"
          THEN /\ instances' = IF listing = "instances" THEN <<>> ELSE gwInstances
               /\ snapshots' = <<>>
               /\ gwSnapshots' = gwSnapshots
               /\ trace' = Append(trace, run_begins)
               /\ raised' = "GatewayError"
               /\ exit' = 1
          ELSE /\ instances' = gwInstances
               /\ snapshots' = gwSnapshots
               /\ IF gwSnapshots = <<>>
                  THEN /\ gwSnapshots' = gwSnapshots
                       /\ trace' = Append(trace, run_begins)
                       /\ raised' = "TypeError"
                       /\ exit' = 1
                  ELSE LET deleted ==
                              for_disks(construct_disks_snapshots_dict(gwSnapshots), 1)
                       IN  \E failure \in 0..Len(deleted) :
                             LET done == IF failure = 0 THEN deleted
                                         ELSE SubSeq(deleted, 1, failure - 1)
                             IN  /\ gwSnapshots' = gateway_delete(gwSnapshots,
                                        {done[k].name : k \in 1..Len(done)})
                                 /\ trace' = Append(trace, run_begins) \o
                                        deletion_trace(done, 1) \o
                                        (IF failure = 0 THEN <<>>
                                         ELSE <<<<"delete", deleted[failure].name>>>>)
                                 /\ raised' = IF failure = 0 THEN "none"
                                              ELSE "GatewayError"
                                 /\ exit' = IF failure = 0 THEN 0 ELSE 1

\* apply_retention_policy, run by main.
apply_retention_policy ==
    /\ pc = "start"
    /\ pc' = "exited"
    /\ retention_run
    /\ UNCHANGED <<option, result, cheat_create, cheat_skip, gwInstances, gwOps, task,
                   idx, taskpc, decision, lookups, queriedEmpty, polls, lastStatus,
                   timers, createCalls>>

RetNext == apply_retention_policy

SpecRetention == RetInit /\ [][RetNext]_vars

\* apply_retention_policy run once more, by a new process, the same day and
\* with no snapshot created since, after a run that went through.
apply_retention_policy_again ==
    /\ pc = "exited"
    /\ exit = 0
    /\ pc' = "exited_again"
    /\ retention_run
    /\ UNCHANGED <<option, result, cheat_create, cheat_skip, gwInstances, gwOps, task,
                   idx, taskpc, decision, lookups, queriedEmpty, polls, lastStatus,
                   timers, createCalls>>

RetTwiceNext ==
    \/ apply_retention_policy
    \/ apply_retention_policy_again

SpecRetentionTwice == RetInit /\ [][RetTwiceNext]_vars

\* ------------------------------------------------------------------ main

\* The values of args.option: the three modes, and the invalid value of
\* test_option_error.
Options == {"instances", "snapshot", "apply-retention-policy", "hi"}

\* main after lines 309-317: the arguments parsed, the BackupManager built.
MainInit ==
    /\ option \in Options
    /\ result = NoResult
    /\ listCalls = <<>>
    /\ cheat_create \in BOOLEAN
    /\ cheat_skip \in BOOLEAN
    /\ gwInstances \in InstanceLists
    /\ gwSnapshots \in SchedSnapshotLists
    /\ gwOps = [i \in InstanceIds |-> "NONE"]
    /\ instances = <<>>
    /\ snapshots = <<>>
    /\ task = 0
    /\ pc = "start"
    /\ idx = 0
    /\ taskpc = NoTasks
    /\ decision = [i \in InstanceIds |-> "none"]
    /\ lookups = [i \in InstanceIds |-> 0]
    /\ queriedEmpty = FALSE
    /\ polls = [i \in InstanceIds |-> 0]
    /\ lastStatus = [i \in InstanceIds |-> "NONE"]
    /\ timers = <<>>
    /\ createCalls = <<>>
    /\ trace = <<>>
    /\ raised = "none"
    /\ exit = -1

\* An unknown option taken for a request of the report.
dispatch_mutant(opt) ==
    IF opt = "snapshot" THEN "manage_snapshot"
    ELSE IF opt = "apply-retention-policy" THEN "apply_retention_policy"
    ELSE "get_instances_info"

\* Lines 320-331: the branch main takes for args.option.
dispatch(opt) ==
    IF opt = "instances" THEN "get_instances_info"
    ELSE IF opt = "snapshot" THEN "manage_snapshot"
    ELSE IF opt = "apply-retention-policy" THEN "apply_retention_policy"
    ELSE "raise"

\* get_instances_info, the whole report: the listing (either call may fail),
\* then for every instance with the label the lookup of the last backup,
\* which raises TypeError on None; for instance in None raises it too.
get_instances_info ==
    /\ pc = "start"
    /\ pc' = "exited"
    /\ \E failure \in {"none", "instances", "snapshots"} :
         /\ listCalls' = listCalls \o list_calls(failure)
         /\ instances' = IF failure = "instances" THEN instances ELSE gwInstances
         /\ snapshots' = IF failure = "none" THEN gwSnapshots ELSE snapshots
         /\ IF failure # "none"
            THEN /\ raised' = "GatewayError"
                 /\ exit' = 1
                 /\ UNCHANGED <<lookups, queriedEmpty>>
            ELSE IF gwInstances = <<>>
            THEN /\ raised' = "TypeError"
                 /\ exit' = 1
                 /\ UNCHANGED <<lookups, queriedEmpty>>
            ELSE LET enabled == {i \in 1..Len(gwInstances) :
                                    backup_enabled(gwInstances[i])}
                 IN  IF gwSnapshots = <<>> /\ enabled # {}
                     THEN LET first == CHOOSE i \in enabled :
                                          \A j \in enabled : i <= j
                          IN  /\ lookups' = [lookups EXCEPT ![first] = @ + 1]
                              /\ queriedEmpty' = TRUE
                              /\ raised' = "TypeError"
                              /\ exit' = 1
                     ELSE /\ lookups' = [i \in InstanceIds |->
                                IF i \in enabled THEN lookups[i] + 1 ELSE lookups[i]]
                          /\ queriedEmpty' = queriedEmpty
                          /\ raised' = "none"
                          /\ exit' = 0
    /\ UNCHANGED <<option, result, cheat_create, cheat_skip, gwInstances, gwSnapshots,
                   gwOps, task, idx, taskpc, decision, polls, lastStatus, timers,
                   createCalls, trace>>

\* Line 331: the exception, uncaught: a traceback on stderr whose last line
\* begins with the option given, and exit status 1.
option_not_available ==
    /\ pc = "start"
    /\ pc' = "exited"
    /\ raised' = "Exception"
    /\ trace' = Append(trace, <<"stderr", option>>)
    /\ exit' = 1
    /\ UNCHANGED <<option, result, listCalls, cheat_create, cheat_skip, gwInstances,
                   gwSnapshots, gwOps, instances, snapshots, task, idx, taskpc,
                   decision, lookups, queriedEmpty, polls, lastStatus, timers,
                   createCalls>>

main_instances == dispatch(option) = "get_instances_info" /\ get_instances_info

main_snapshot == dispatch(option) = "manage_snapshot" /\ manage_snapshot_start

main_apply_retention_policy ==
    dispatch(option) = "apply_retention_policy" /\ apply_retention_policy

main_else == dispatch(option) = "raise" /\ option_not_available

MainNext ==
    \/ main_instances
    \/ main_snapshot
    \/ main_apply_retention_policy
    \/ main_else
    \/ manage_snapshot_wake
    \/ manage_snapshot_join
    \/ \E i \in InstanceIds : create_snapshot_start(i)
    \/ \E i \in InstanceIds : create_snapshot_poll(i)
    \/ \E i \in InstanceIds : gateway_operation_ends(i)

SpecMain == MainInit /\ [][MainNext]_vars

\* ------------------------------------- the two functions, each on its own

\* A BackupManager whose self.snapshots a listing has set: None (<<>>), or
\* the snapshots listed.
PureInit ==
    /\ option = "none"
    /\ result = NoResult
    /\ listCalls = <<>>
    /\ cheat_create = FALSE
    /\ cheat_skip = FALSE
    /\ gwInstances = <<>>
    /\ gwSnapshots \in RetSnapshotLists
    /\ gwOps = [i \in InstanceIds |-> "NONE"]
    /\ instances = <<>>
    /\ snapshots = gwSnapshots
    /\ task = 0
    /\ pc = "start"
    /\ idx = 0
    /\ taskpc = NoTasks
    /\ decision = [i \in InstanceIds |-> "none"]
    /\ lookups = [i \in InstanceIds |-> 0]
    /\ queriedEmpty = FALSE
    /\ polls = [i \in InstanceIds |-> 0]
    /\ lastStatus = [i \in InstanceIds |-> "NONE"]
    /\ timers = <<>>
    /\ createCalls = <<>>
    /\ trace = <<>>
    /\ raised = "none"
    /\ exit = -1

\* get_last_backup_timestamp(snapshots=self.snapshots): snapshots[0] raises
\* TypeError on None (line 49).
call_get_last_backup_timestamp ==
    /\ pc = "start"
    /\ pc' = "exited"
    /\ queriedEmpty' = (snapshots = <<>>)
    /\ result' =
          IF snapshots = <<>>
          THEN [call |-> "get_last_backup_timestamp", raised |-> "TypeError",
                value |-> <<>>]
          ELSE [call |-> "get_last_backup_timestamp", raised |-> "none",
                value |-> get_last_backup_timestamp(snapshots, "creationTimestamp")]
    /\ UNCHANGED <<option, listCalls, cheat_create, cheat_skip, gwInstances,
                   gwSnapshots, gwOps, instances, snapshots, task, idx, taskpc,
                   decision, lookups, polls, lastStatus, timers, createCalls,
                   trace, raised, exit>>

\* construct_disks_snapshots_dict(): the for of line 199 raises TypeError on
\* None.
call_construct_disks_snapshots_dict ==
    /\ pc = "start"
    /\ pc' = "exited"
    /\ result' =
          IF snapshots = <<>>
          THEN [call |-> "construct_disks_snapshots_dict", raised |-> "TypeError",
                value |-> <<>>]
          ELSE [call |-> "construct_disks_snapshots_dict", raised |-> "none",
                value |-> construct_disks_snapshots_dict(snapshots)]
    /\ UNCHANGED <<option, listCalls, cheat_create, cheat_skip, gwInstances,
                   gwSnapshots, gwOps, instances, snapshots, task, idx, taskpc,
                   decision, lookups, queriedEmpty, polls, lastStatus, timers,
                   createCalls, trace, raised, exit>>

PureNext ==
    \/ call_get_last_backup_timestamp
    \/ call_construct_disks_snapshots_dict

SpecPure == PureInit /\ [][PureNext]_vars

\* ------------------------------------------- the specification's vocabulary

\* The state of instance i in the state machine of the Backup Scheduler, read
\* off the branch manage_snapshot took for it and the position of its task.
\* (No position of the code stands for FAILED.)
InstanceState(i) ==
    CASE decision[i] = "none" -> "PENDING_DECISION"
      [] decision[i] = "disabled" -> "NOT_APPLICABLE"
      [] decision[i] = "skip" -> "SKIPPED"
      [] decision[i] = "create" /\ taskpc[i] = "done" -> "COMPLETED"
      [] OTHER -> "CREATING"

Listed == 1..Len(instances)

\* Instance i carries the label backup=true.
Enabled(i) == instances[i].labels.backup = "true"

Launched == {i \in InstanceIds : decision[i] = "create"}

\* The task of instance i has finished: it returned, or it raised.
TaskFinished(i) == taskpc[i] \in {"done", "raised"}

\* createSnapshot calls issued for the disk of instance i.
CreateCallsFor(i) == {k \in 1..Len(createCalls) : createCalls[k].disk = i}

\* The date of the latest snapshot of a non-empty collection.
LatestDate(snaps) ==
    LET stamps == {snaps[k].creationTimestamp : k \in 1..Len(snaps)}
    IN  (CHOOSE t \in stamps : \A u \in stamps : u <= t) \div TicksPerDay

AllDoneLogged == \E k \in 1..Len(trace) : trace[k] = <<"log", "All snapshots done">>

\* ------------------------------------------------------------------ claims

\* C1: the coordinator logs 'All snapshots done' and returns only when every
\* task it launched, not only the last one, has finished.
C1_EveryTaskFinishedWhenAllDone ==
    AllDoneLogged => \A i \in Launched : TaskFinished(i)

\* C2: a task whose poll returned ERROR has its instance FAILED and polls no
\* more.
C2_ErrorPollFailsInstance ==
    \A i \in Launched :
        lastStatus[i] = "ERROR" => InstanceState(i) = "FAILED" /\ taskpc[i] # "wait"

\* C3: a run that has ended, in which the gateway reported ERROR for one
\* instance and whose other operations are DONE, has that instance FAILED and
\* every other launched instance COMPLETED.
C3_BatchContinuesAfterError ==
    LET failed == {i \in Launched : lastStatus[i] = "ERROR"}
    IN  ( /\ exit # -1
          /\ raised = "none"
          /\ Cardinality(failed) = 1
          /\ \A j \in Launched \ failed : gwOps[j] = "DONE" )
        => /\ \A f \in failed : InstanceState(f) = "FAILED"
           /\ \A j \in Launched \ failed : InstanceState(j) = "COMPLETED"

\* C4: a run in one of whose tasks a gateway call raised does not end with
\* exit status 0.
C4_GatewayFailureAbortsRun ==
    exit = 0 => \A i \in InstanceIds : taskpc[i] # "raised"

\* C5: an enabled instance, when the latest snapshot known is of today and
\* force-create is not given, is SKIPPED once the scheduler has come to it,
\* and no createSnapshot call and no poll is ever issued for it.
C5_SkippedWhenBackedUpToday ==
    \A i \in Listed :
        ( /\ Enabled(i)
          /\ snapshots # <<>>
          /\ LatestDate(snapshots) = Today
          /\ ~cheat_create )
        => /\ InstanceState(i) \in {"PENDING_DECISION", "SKIPPED"}
           /\ idx >= i => InstanceState(i) = "SKIPPED"
           /\ CreateCallsFor(i) = {}
           /\ polls[i] = 0
           /\ taskpc[i] = "none"

C5_Witness ==
    \E i \in Listed :
        /\ Enabled(i)
        /\ snapshots # <<>>
        /\ LatestDate(snapshots) = Today
        /\ ~cheat_create /\ ~cheat_skip
        /\ InstanceState(i) = "SKIPPED"
        /\ exit = 0

\* C6: an enabled instance, when the latest snapshot known is not of today
\* and force-skip is not given, enters CREATING once the scheduler has come to
\* it; exactly one createSnapshot call is issued for it, for its own disk, by
\* the time its task has run (and so by the end of the run); and it is
\* COMPLETED only when the last poll of its own operation returned DONE, the
\* operation being DONE.
C6_CreatedOnceCompletedOnDone ==
    \A i \in Listed :
        ( /\ Enabled(i)
          /\ snapshots # <<>>
          /\ LatestDate(snapshots) # Today
          /\ ~cheat_skip )
        => /\ idx >= i => InstanceState(i) \in {"CREATING", "COMPLETED"}
           /\ Cardinality(CreateCallsFor(i)) =
                 (IF taskpc[i] \in {"none", "start"} THEN 0 ELSE 1)
           /\ (exit # -1 /\ idx >= i) => Cardinality(CreateCallsFor(i)) = 1
           /\ InstanceState(i) = "COMPLETED" =>
                 /\ lastStatus[i] = "DONE"
                 /\ gwOps[i] = "DONE"
                 /\ polls[i] >= 1

C6_Witness ==
    \E i \in Listed :
        /\ Enabled(i)
        /\ snapshots # <<>>
        /\ LatestDate(snapshots) # Today
        /\ ~cheat_skip /\ ~cheat_create
        /\ InstanceState(i) = "COMPLETED"
        /\ Cardinality(CreateCallsFor(i)) = 1
        /\ exit = 0

\* C7: for an enabled instance the scheduler has come to, the overrides and
\* the date decide: force-create gives CREATING; else force-skip gives
\* SKIPPED, whether or not a backup of today exists; else SKIPPED exactly when
\* there is a latest snapshot and it is of today.
C7_OverridesDecide ==
    \A i \in Listed :
        (Enabled(i) /\ lookups[i] >= 1)
        => decision[i] =
              (IF cheat_create THEN "create"
               ELSE IF cheat_skip THEN "skip"
               ELSE IF snapshots # <<>> /\ LatestDate(snapshots) = Today
               THEN "skip" ELSE "create")

\* C8: a disabled instance is NOT_APPLICABLE once the scheduler has come to
\* it; no lookup, no createSnapshot call and no poll is ever made for it,
\* whatever the overrides; the run does not fail at it, and a run over
\* disabled instances only does not fail for want of snapshots.
C8_DisabledNotApplicable ==
    \A i \in Listed :
        ~Enabled(i)
        => /\ InstanceState(i) \in {"PENDING_DECISION", "NOT_APPLICABLE"}
           /\ idx > i => InstanceState(i) = "NOT_APPLICABLE"
           /\ lookups[i] = 0
           /\ CreateCallsFor(i) = {}
           /\ polls[i] = 0
           /\ taskpc[i] = "none"
           /\ (raised = "TypeError" /\ pc = "exited") => idx # i
           /\ (\A j \in Listed : ~Enabled(j)) => raised # "TypeError"

C8_Witness ==
    \E i \in Listed :
        /\ ~Enabled(i)
        /\ gwSnapshots = <<>>
        /\ cheat_create
        /\ InstanceState(i) = "NOT_APPLICABLE"
        /\ exit = 0

\* C9: get_last_backup_timestamp is never called on an empty (or absent)
\* collection.
C9_QueryOnlyOnNonEmpty == ~queriedEmpty

\* C10: after a retention run that went through, every disk has at most one
\* snapshot left on each date less than 7 days old.
C10_AtMostOnePerDay ==
    (pc = "exited" /\ exit = 0)
    => \A a \in 1..Len(gwSnapshots), b \in 1..Len(gwSnapshots) :
          LET date_a == gwSnapshots[a].creationTimestamp \div TicksPerDay
              date_b == gwSnapshots[b].creationTimestamp \div TicksPerDay
          IN  ( /\ gwSnapshots[a].sourceDiskId = gwSnapshots[b].sourceDiskId
                /\ date_a = date_b
                /\ Today - date_a >= 0
                /\ Today - date_a < 7 )
              => a = b

\* ---- retention: the vocabulary of its claims. After a run that listed the
\* snapshots, self.snapshots is the collection before the run and the
\* gateway's is the collection after it.

\* The age in days, on the day of the run, of the date of snapshot s.
Age(s) == Today - (s.creationTimestamp \div TicksPerDay)

\* s is in the pool of its disk: its age is in [7,14).
InPool(s) == Age(s) >= 7 /\ Age(s) < 14

\* s is in a day bucket of its disk: its age is in [0,7).
InDay(s) == Age(s) >= 0 /\ Age(s) < 7

\* The positions, in the collection before the run, of the snapshots that
\* the gateway still holds, and of those it holds no more.
Remaining == {k \in 1..Len(snapshots) :
                \E j \in 1..Len(gwSnapshots) : gwSnapshots[j].name = snapshots[k].name}

Deleted == (1..Len(snapshots)) \ Remaining

\* snapshots().delete calls issued for the snapshot named n.
DeleteCallsFor(n) ==
    {k \in 1..Len(trace) : trace[k][1] = "delete" /\ trace[k][2] = n}

\* The positions of the pool of disk d in the collection before the run.
PoolOf(d) == {k \in 1..Len(snapshots) :
                snapshots[k].sourceDiskId = d /\ InPool(snapshots[k])}

\* C11: after a retention run that went through, of the pool of every disk
\* (its snapshots of age 7 to 13 days) at most one snapshot remains, one of
\* the maximum timestamp of the pool; every other one has been deleted.
C11_AtMostOneInPool ==
    (pc = "exited" /\ exit = 0)
    => \A d \in DiskIds :
          /\ Cardinality(PoolOf(d) \cap Remaining) <= 1
          /\ \A k \in PoolOf(d) \cap Remaining :
                \A j \in PoolOf(d) :
                    snapshots[j].creationTimestamp <= snapshots[k].creationTimestamp

\* C12: a retention run leaves every snapshot 14 days old or older as it
\* was: no delete call is issued for it and the gateway holds it unchanged,
\* however the run ends and whatever else its disk holds.
C12_OldSnapshotsUntouched ==
    \A k \in 1..Len(snapshots) :
        Age(snapshots[k]) >= 14
        => /\ DeleteCallsFor(snapshots[k].name) = {}
           /\ \E j \in 1..Len(gwSnapshots) : gwSnapshots[j] = snapshots[k]

\* A run that went through and deleted a snapshot of a disk that also holds
\* a snapshot 14 days old or older.
C12_Witness ==
    /\ pc = "exited"
    /\ exit = 0
    /\ \E a \in Remaining, c \in Deleted :
          /\ Age(snapshots[a]) >= 14
          /\ snapshots[a].sourceDiskId = snapshots[c].sourceDiskId
          /\ DeleteCallsFor(snapshots[c].name) # {}

\* C13: retention is idempotent. A second run, the same day, after a run
\* that went through, issues no delete call and leaves the gateway's
\* collection as the first run left it.
C13_SecondRunDeletesNothing ==
    [][ (pc = "exited" /\ exit = 0 /\ pc' = "exited_again")
        => /\ gwSnapshots' = gwSnapshots
           /\ Len(trace') >= Len(trace)
           /\ \A k \in (Len(trace) + 1)..Len(trace') : trace'[k][1] # "delete" ]_vars

\* A second run has gone through, after a first run that went through (its
\* last delete call was followed by its log line) and deleted a snapshot.
C13_Witness ==
    /\ pc = "exited_again"
    /\ exit = 0
    /\ Len(trace) >= 4
    /\ trace[Len(trace)][1] = "begin"
    /\ trace[Len(trace) - 1][1] = "log"
    /\ trace[Len(trace) - 2][1] = "delete"
    /\ Len(gwSnapshots) >= 1

\* Snapshots a and b are of the same window of the same disk: the same day
\* bucket (one date, of age 0 to 6 days), or the pool (ages 7 to 13 days).
SameWindow(a, b) ==
    /\ a.sourceDiskId = b.sourceDiskId
    /\ \/ InDay(a) /\ InDay(b) /\ Age(a) = Age(b)
       \/ InPool(a) /\ InPool(b)

\* C14: retention never deletes the newest snapshot of a window. Every
\* snapshot it deletes, or issues a delete call for, has a strictly newer
\* snapshot of the same window that survives the run; a window holding one
\* snapshot loses nothing; a window that held a snapshot still holds one.
C14_NewestOfWindowKept ==
    \A k \in 1..Len(snapshots) :
        LET window == {j \in 1..Len(snapshots) :
                          SameWindow(snapshots[j], snapshots[k])}
        IN  /\ (k \in Deleted \/ DeleteCallsFor(snapshots[k].name) # {})
               => \E j \in window \cap Remaining :
                     snapshots[j].creationTimestamp > snapshots[k].creationTimestamp
            /\ window = {k}
               => k \in Remaining /\ DeleteCallsFor(snapshots[k].name) = {}
            /\ window # {} => window \cap Remaining # {}

\* A run that went through and deleted a snapshot of one window while another
\* window held one snapshot only.
C14_Witness ==
    /\ pc = "exited"
    /\ exit = 0
    /\ Deleted # {}
    /\ \E k \in Remaining :
          /\ InDay(snapshots[k])
          /\ \A j \in 1..Len(snapshots) :
                SameWindow(snapshots[j], snapshots[k]) => j = k

\* C15: the log line naming a snapshot's id is written before the delete call
\* for that snapshot is issued.
C15_LoggedBeforeDeleteCall ==
    \A k \in 1..Len(trace) :
        trace[k][1] = "delete"
        => \E j \in 1..(k - 1), s \in 1..Len(snapshots) :
              /\ snapshots[s].name = trace[k][2]
              /\ trace[j][1] = "log"
              /\ trace[j][2] = snapshots[s].id

\* ---- the two functions: the vocabulary of their claims.

\* The collection S, listed in the order p (a permutation of its positions).
Permuted(S, p) == [k \in 1..Len(S) |-> S[p[k]]]

\* C16: latestTimestamp of a non-empty collection is a timestamp of the
\* collection, not less than any of its timestamps, and the same for the
\* collection listed in any other order.
C16_LatestIsMaximumInAnyOrder ==
    (result.call = "get_last_backup_timestamp" /\ snapshots # <<>>)
    => /\ result.raised = "none"
       /\ \E k \in 1..Len(snapshots) :
             snapshots[k].creationTimestamp = result.value
       /\ \A k \in 1..Len(snapshots) :
             snapshots[k].creationTimestamp <= result.value
       /\ \A p \in Permutations(1..Len(snapshots)) :
             get_last_backup_timestamp(Permuted(snapshots, p), "creationTimestamp")
                = result.value

\* The function has returned for three snapshots of three different
\* timestamps, the one listed first not being the latest.
C16_Witness ==
    /\ result.call = "get_last_backup_timestamp"
    /\ result.raised = "none"
    /\ Len(snapshots) >= 3
    /\ Cardinality({snapshots[k].creationTimestamp : k \in 1..Len(snapshots)}) >= 3
    /\ snapshots[1].creationTimestamp < result.value

\* The entries of the index disks: <<d, e, n>> is the n-th snapshot of the
\* bucket of the e-th date of the d-th disk.
Entries(disks) ==
    UNION { UNION { {<<d, e, n>> : n \in 1..Len(disks[d].value[e].value)} :
                    e \in 1..Len(disks[d].value) } :
            d \in 1..Len(disks) }

\* The entry at w of the index is snapshot s, in the bucket of its own disk
\* and of the date of its own creation.
IsEntryOf(disks, w, s) ==
    /\ disks[w[1]].value[w[2]].value[w[3]] =
          [name |-> s.name, id |-> s.id, time |-> s.creationTimestamp]
    /\ disks[w[1]].key = s.sourceDiskId
    /\ disks[w[1]].value[w[2]].key = s.creationTimestamp \div TicksPerDay

\* C17: indexByDiskAndDate partitions the collection exactly. Every snapshot
\* is at exactly one place of the index, in the bucket of its own disk and
\* date; every entry of the index is a snapshot of the collection; and no
\* disk and no date of a disk has two buckets.
C17_IndexPartitionsExactly ==
    result.call = "construct_disks_snapshots_dict"
    => LET disks == result.value
       IN  /\ \A k \in 1..Len(snapshots) :
                 /\ Cardinality({w \in Entries(disks) :
                        disks[w[1]].value[w[2]].value[w[3]].name = snapshots[k].name}) = 1
                 /\ \E w \in Entries(disks) : IsEntryOf(disks, w, snapshots[k])
           /\ \A w \in Entries(disks) :
                 \E k \in 1..Len(snapshots) : IsEntryOf(disks, w, snapshots[k])
           /\ \A a, b \in 1..Len(disks) : disks[a].key = disks[b].key => a = b
           /\ \A d \in 1..Len(disks) :
                 \A a, b \in 1..Len(disks[d].value) :
                     disks[d].value[a].key = disks[d].value[b].key => a = b

\* The index has been built for three snapshots: two of one disk and one
\* date, and one of the other disk.
C17_Witness ==
    /\ result.call = "construct_disks_snapshots_dict"
    /\ result.raised = "none"
    /\ Len(snapshots) >= 3
    /\ Len(result.value) = 2
    /\ \E w \in Entries(result.value) : w[3] = 2

\* ---- main: the vocabulary of its claim.

\* The modes of the command surface.
Modes == {"instances", "snapshot", "apply-retention-policy"}

\* C18: a mode that is none of the three is fatal. No list, create, poll or
\* delete call is ever issued, and the process ends with a non-zero exit
\* status and an error that names the value given.
C18_InvalidModeIsFatal ==
    option \notin Modes
    => /\ listCalls = <<>>
       /\ createCalls = <<>>
       /\ \A i \in InstanceIds : polls[i] = 0 /\ taskpc[i] = "none"
       /\ \A k \in 1..Len(trace) : trace[k][1] # "delete"
       /\ exit \in {-1, 1}
       /\ pc = "exited"
          => /\ exit = 1
             /\ raised = "Exception"
             /\ \E k \in 1..Len(trace) :
                   trace[k][1] = "stderr" /\ trace[k][2] = option

\* The process has ended on an invalid mode, in a project where a scheduler
\* run would have had an instance to back up and a retention run a snapshot
\* to delete.
C18_Witness ==
    /\ option \notin Modes
    /\ pc = "exited"
    /\ exit = 1
    /\ \E i \in 1..Len(gwInstances) : gwInstances[i].labels.backup = "true"
    /\ Len(gwSnapshots) >= 2
    /\ gwSnapshots[1].creationTimestamp \div TicksPerDay # Today

\* ---- scheduler: the claims on a run as a whole.

\* The scheduler has decided for instance i: it is SKIPPED, or it entered
\* CREATING.
Decided(i) == decision[i] \in {"skip", "create"}

\* C19: within one scheduler run the decision is the same for every enabled
\* instance. The snapshots are listed once; no two enabled instances get
\* different decisions, so a creation launched for one never makes a later
\* one SKIPPED; and a run that read a non-empty collection has, when it ends,
\* either skipped every enabled instance or launched a creation for each.
C19_OneDecisionForAll ==
    /\ Cardinality({k \in 1..Len(listCalls) : listCalls[k] = "snapshots"}) <= 1
    /\ \A i, j \in Listed :
          (Enabled(i) /\ Enabled(j) /\ Decided(i) /\ Decided(j))
          => decision[i] = decision[j]
    /\ (pc = "exited" /\ snapshots # <<>>)
       => \/ \A i \in Listed : Enabled(i) => decision[i] = "skip"
          \/ \A i \in Listed : Enabled(i) => decision[i] = "create"

\* Two enabled instances have both entered CREATING, with no override, the
\* snapshot created for the first being listed by the gateway as of today
\* when the scheduler came to the second.
C19_Witness ==
    /\ ~cheat_create /\ ~cheat_skip
    /\ Len(instances) >= 2
    /\ Enabled(1) /\ Enabled(2)
    /\ decision[1] = "create" /\ decision[2] = "create"
    /\ Len(gwSnapshots) > Len(snapshots)
    /\ gwSnapshots[Len(snapshots) + 1].sourceDiskId = 1
    /\ gwSnapshots[Len(snapshots) + 1].creationTimestamp \div TicksPerDay = Today
    /\ pc = "exited"
    /\ exit = 0

\* C20: in one scheduler run no two createSnapshot calls carry the same
\* snapshot name.
C20_DistinctSnapshotNames ==
    \A a, b \in 1..Len(createCalls) :
        createCalls[a].name = createCalls[b].name => a = b

====
